---- MODULE Spec2Model ----
(***************************************************************************)
(* Model of experiment_scripts/run_shuffle_jobs.py: a sequential sweep     *)
(* driver that runs the external ShuffleJob once per (items per partition, *)
(* task multiplier) pair and archives the logs after every run.            *)
(*                                                                         *)
(* Strings are sequences of one-character strings, so that formatting,     *)
(* joining and stripping are computed as Python computes them.  Python     *)
(* values that are formatted with "{}" carry their type as a tag.          *)
(* The environment is assumed to provide a readable worker-host file and a *)
(* writable standard output; the exit status of the external job and the   *)
(* outcome of the log archiver are chosen by the environment.              *)
(***************************************************************************)
EXTENDS Integers, Sequences, FiniteSets, TLC

(* ------------------------------ bounds --------------------------------- *)
MaxN == 2
MaxM == 2
MaxFileLen == 4

(* ------------------------- program constants --------------------------- *)
num_machines == 1
cores_per_machine == 8
longs_per_value == 6
num_shuffles == 6
sortByKey == FALSE
cacheRdd == FALSE
base_num_map_tasks == num_machines * cores_per_machine
base_num_reduce_tasks == num_machines * cores_per_machine
ShippedItemsPerPartitionValues == <<8000000>>
ShippedNumTasksMultiplierValues == <<1, 2, 4, 8, 16, 32>>

(* ----------------------------- inputs ---------------------------------- *)
NL == "\n"
ItemValues == {8000000, 10}
MultValues == {1, 2}
FileChars == {"a", "b", NL}
ExitStatuses == {0, 1, 255}
Delays == {1, 2}
ArchiverOutcomes == {"ok", "raise"}

SeqsUpTo(S, n) == UNION {[1..k -> S] : k \in 0..n}

\* the two lists of the sweep: every pair of short lists, and the shipped pair
Sweeps ==
  (SeqsUpTo(ItemValues, MaxN) \X SeqsUpTo(MultValues, MaxM))
    \cup {<<ShippedItemsPerPartitionValues, ShippedNumTasksMultiplierValues>>}
FileContents == SeqsUpTo(FileChars, MaxFileLen)

\* The runs of the model: every sweep on a sample worker-host file, and every
\* worker-host file with a sample sweep.
SampleFile == <<"a", "b", NL, "b", NL>>
SampleSweep == <<<<10>>, <<1, 2>>>>
Runs == (Sweeps \X {SampleFile}) \cup ({SampleSweep} \X FileContents)

(* ------------------------- string literals ----------------------------- *)
RunExample ==
  <<"/","r","o","o","t","/","s","p","a","r","k","/","b","i","n","/",
    "r","u","n","-","e","x","a","m","p","l","e">>
ShuffleJob ==
  <<"m","o","n","o","t","a","s","k","s",".","S","h","u","f","f","l","e","J","o","b">>
SP == <<" ">>
CommandPrefix == RunExample \o SP \o ShuffleJob \o SP
BannerPrefix ==
  <<"*","*","*","*","*","*","*","*","*","*","*","*","*",
    "R","u","n","n","i","n","g"," ","e","x","p","e","r","i","m","e","n","t",
    " ","w","i","t","h"," ">>
BannerSuffix ==
  <<" ","s","h","u","f","f","l","e"," ","v","a","l","u","e","s">>
SlavesPrefix ==
  <<"R","u","n","n","i","n","g"," ","e","x","p","e","r","i","m","e","n","t",
    " ","a","s","s","u","m","i","n","g"," ","s","l","a","v","e","s"," ">>
ElapsedPrefix ==
  <<"M","a","t","r","i","x"," ","s","c","r","i","p","t"," ","t","o","o","k">>

(* --------------------------- pure functions ---------------------------- *)
Digit(d) == <<"0","1","2","3","4","5","6","7","8","9">>[d + 1]

RECURSIVE NatStr(_)
NatStr(n) == IF n < 10 THEN <<Digit(n)>>
             ELSE NatStr(n \div 10) \o <<Digit(n % 10)>>

IntStr(n) == IF n < 0 THEN <<"-">> \o NatStr(0 - n) ELSE NatStr(n)

BoolStr(b) == IF b THEN <<"T","r","u","e">> ELSE <<"F","a","l","s","e">>

PyInt(n) == [t |-> "int", v |-> n]
PyBool(b) == [t |-> "bool", v |-> b]

\* "{}".format(p)
Format(p) == IF p.t = "int" THEN IntStr(p.v) ELSE BoolStr(p.v)

\* sep.join(parts)
RECURSIVE Join(_, _)
Join(sep, parts) ==
  IF parts = <<>> THEN <<>>
  ELSE IF Len(parts) = 1 THEN parts[1]
  ELSE parts[1] \o sep \o Join(sep, Tail(parts))

\* file.readlines(): every line keeps its terminating newline; a last line
\* without one is still a line.
RECURSIVE ReadLines(_)
ReadLines(s) ==
  IF s = <<>> THEN <<>>
  ELSE LET ends == {k \in 1..Len(s) : s[k] = NL}
           cut == IF ends = {} THEN Len(s)
                  ELSE CHOOSE k \in ends : \A m \in ends : k <= m
       IN <<SubSeq(s, 1, cut)>> \o ReadLines(SubSeq(s, cut + 1, Len(s)))

RECURSIVE LStrip(_, _)
LStrip(s, c) == IF s # <<>> /\ Head(s) = c THEN LStrip(Tail(s), c) ELSE s

RECURSIVE RStrip(_, _)
RStrip(s, c) == IF s # <<>> /\ s[Len(s)] = c
                THEN RStrip(SubSeq(s, 1, Len(s) - 1), c) ELSE s

StripIdentity(s, c) == s

\* str.strip(c)
Strip(s, c) == RStrip(LStrip(s, c), c)

\* [slave_line.strip("\n") for slave_line in open(...).readlines()]
ParseSlaves(content) ==
  LET lines == ReadLines(content)
  IN [k \in 1..Len(lines) |-> Strip(lines[k], NL)]

\* repr() of a list of strings free of quotes, backslashes and control
\* characters
ReprList(l) ==
  <<"[">> \o Join(<<",", " ">>, [k \in 1..Len(l) |-> <<"'">> \o l[k] \o <<"'">>])
          \o <<"]">>

NumTasksSum(mult, base) == mult + base

NumTasks(mult, base) == mult * base

ParametersSwapped(nmap, nreduce, items) ==
  <<PyInt(nmap), PyInt(nreduce), PyInt(longs_per_value), PyInt(items),
    PyInt(num_shuffles), PyBool(sortByKey), PyBool(cacheRdd)>>

Parameters(nmap, nreduce, items) ==
  <<PyInt(nmap), PyInt(nreduce), PyInt(items), PyInt(longs_per_value),
    PyInt(num_shuffles), PyBool(sortByKey), PyBool(cacheRdd)>>

Stringify(params) == [k \in 1..Len(params) |-> Format(params[k])]

Command(strs) == CommandPrefix \o Join(SP, strs)

Banner(items) == BannerPrefix \o IntStr(items) \o BannerSuffix

CompletionReversed(e, s) == s - e

Completion(e, s) == e - s

\* subprocess.check_call raises CalledProcessError on these exit statuses
NeverRaises(status) == FALSE

CheckCallRaises(status) == status # 0

(* ------------------------------- state --------------------------------- *)
VARIABLES
  pc,                          \* position in the script
  now,                         \* the wall clock
  slavesFile,                  \* content of /root/spark/conf/slaves
  items_per_partition_values,
  num_tasks_multiplier_values,
  start, end, completion,
  slaves,
  i, j,                        \* positions of the two for-loop iterators
  items_per_partition, num_tasks_multiplier,
  num_reduce_tasks, num_map_tasks,
  parameters, stringified_parameters, command,
  stdout,                      \* lines printed so far
  calls,                       \* external effects so far, in order
  running                      \* number of external activities in progress,
                               \* per kind

config == <<slavesFile, items_per_partition_values, num_tasks_multiplier_values>>
timer == <<start, end, completion>>
loop == <<i, j, items_per_partition, num_tasks_multiplier>>
locals == <<num_reduce_tasks, num_map_tasks, parameters,
            stringified_parameters, command>>
vars == <<pc, now, config, timer, slaves, loop, locals, stdout, calls, running>>

Unset == -1

Init ==
  /\ pc = "start"
  /\ now = 0
  /\ \E run \in Runs :
       /\ items_per_partition_values = run[1][1]
       /\ num_tasks_multiplier_values = run[1][2]
       /\ slavesFile = run[2]
  /\ start = Unset /\ end = Unset /\ completion = Unset
  /\ slaves = <<>>
  /\ i = 0 /\ j = 0
  /\ items_per_partition = Unset /\ num_tasks_multiplier = Unset
  /\ num_reduce_tasks = Unset /\ num_map_tasks = Unset
  /\ parameters = <<>> /\ stringified_parameters = <<>> /\ command = <<>>
  /\ stdout = <<>>
  /\ calls = <<>>
  /\ running = [job |-> 0, archiver |-> 0]

(* ------------------------------ actions -------------------------------- *)
\* start = time.time()
RecordStart ==
  /\ pc = "start"
  /\ start' = now
  /\ calls' = Append(calls, [op |-> "time", t |-> now])
  /\ pc' = "read_slaves"
  /\ UNCHANGED <<now, config, end, completion, slaves, loop, locals, stdout, running>>

\* slaves = [slave_line.strip("\n") for slave_line in open(...).readlines()]
ReadSlaves ==
  /\ pc = "read_slaves"
  /\ slaves' = ParseSlaves(slavesFile)
  /\ calls' = Append(calls, [op |-> "read", content |-> slavesFile])
  /\ now' = now + 1
  /\ pc' = "print_slaves"
  /\ UNCHANGED <<config, timer, loop, locals, stdout, running>>

\* print "Running experiment assuming slaves %s" % slaves
PrintSlaves ==
  /\ pc = "print_slaves"
  /\ stdout' = Append(stdout, SlavesPrefix \o ReprList(slaves))
  /\ pc' = "for_items"
  /\ UNCHANGED <<now, config, timer, slaves, loop, locals, calls, running>>

\* for items_per_partition in items_per_partition_values: next element
ForItemsNext ==
  /\ pc = "for_items"
  /\ i < Len(items_per_partition_values)
  /\ i' = i + 1
  /\ items_per_partition' = items_per_partition_values[i + 1]
  /\ j' = 0
  /\ pc' = "for_mult"
  /\ UNCHANGED <<now, config, timer, slaves, num_tasks_multiplier, locals,
                 stdout, calls, running>>

\* the outer loop is exhausted
ForItemsExit ==
  /\ pc = "for_items"
  /\ i >= Len(items_per_partition_values)
  /\ pc' = "record_end"
  /\ UNCHANGED <<now, config, timer, slaves, loop, locals, stdout, calls, running>>

ForMultNextReversed ==
  /\ pc = "for_mult"
  /\ j < Len(num_tasks_multiplier_values)
  /\ j' = j + 1
  /\ num_tasks_multiplier' =
       num_tasks_multiplier_values[Len(num_tasks_multiplier_values) - j]
  /\ pc' = "compute"
  /\ UNCHANGED <<now, config, timer, slaves, i, items_per_partition, locals,
                 stdout, calls, running>>

\* for num_tasks_multiplier in num_tasks_multiplier_values: next element
ForMultNext ==
  /\ pc = "for_mult"
  /\ j < Len(num_tasks_multiplier_values)
  /\ j' = j + 1
  /\ num_tasks_multiplier' = num_tasks_multiplier_values[j + 1]
  /\ pc' = "compute"
  /\ UNCHANGED <<now, config, timer, slaves, i, items_per_partition, locals,
                 stdout, calls, running>>

\* the inner loop is exhausted
ForMultExit ==
  /\ pc = "for_mult"
  /\ j >= Len(num_tasks_multiplier_values)
  /\ pc' = "for_items"
  /\ UNCHANGED <<now, config, timer, slaves, loop, locals, stdout, calls, running>>

\* num_reduce_tasks = ...; num_map_tasks = ...
ComputeTasks ==
  /\ pc = "compute"
  /\ num_reduce_tasks' = NumTasks(num_tasks_multiplier, base_num_reduce_tasks)
  /\ num_map_tasks' = NumTasks(num_tasks_multiplier, base_num_map_tasks)
  /\ pc' = "print_banner"
  /\ UNCHANGED <<now, config, timer, slaves, loop, parameters,
                 stringified_parameters, command, stdout, calls, running>>

\* print "*************Running experiment with {} shuffle values".format(...)
PrintBanner ==
  /\ pc = "print_banner"
  /\ stdout' = Append(stdout, Banner(items_per_partition))
  /\ pc' = "build"
  /\ UNCHANGED <<now, config, timer, slaves, loop, locals, calls, running>>

\* parameters = [...]; stringified_parameters = [...]; command = ...
BuildCommand ==
  /\ pc = "build"
  /\ parameters' = Parameters(num_map_tasks, num_reduce_tasks, items_per_partition)
  /\ stringified_parameters' = Stringify(parameters')
  /\ command' = Command(stringified_parameters')
  /\ pc' = "print_command"
  /\ UNCHANGED <<now, config, timer, slaves, loop, num_reduce_tasks,
                 num_map_tasks, stdout, calls, running>>

PrintCommandSilent ==
  /\ pc = "print_command"
  /\ pc' = "check_call"
  /\ UNCHANGED <<now, config, timer, slaves, loop, locals, stdout, calls, running>>

\* print command
PrintCommand ==
  /\ pc = "print_command"
  /\ stdout' = Append(stdout, command)
  /\ pc' = "check_call"
  /\ UNCHANGED <<now, config, timer, slaves, loop, locals, calls, running>>

CheckCallSpawnNoWait ==
  /\ pc = "check_call"
  /\ calls' = Append(calls, [op |-> "spawn", idx |-> <<i, j>>, command |-> command])
  /\ running' = [running EXCEPT !.job = @ + 1]
  /\ pc' = "archive"
  /\ UNCHANGED <<now, config, timer, slaves, loop, locals, stdout>>

\* subprocess.check_call(command, shell=True): the shell is started on the
\* command string
CheckCallSpawn ==
  /\ pc = "check_call"
  /\ calls' = Append(calls, [op |-> "spawn", idx |-> <<i, j>>, command |-> command])
  /\ running' = [running EXCEPT !.job = @ + 1]
  /\ pc' = "wait_job"
  /\ UNCHANGED <<now, config, timer, slaves, loop, locals, stdout>>

CheckCallWaitContinue ==
  /\ pc = "wait_job"
  /\ \E status \in ExitStatuses, d \in Delays :
       /\ calls' = Append(calls, [op |-> "exit", idx |-> <<i, j>>, status |-> status])
       /\ now' = now + d
       /\ pc' = IF CheckCallRaises(status) THEN "for_mult" ELSE "archive"
  /\ running' = [running EXCEPT !.job = @ - 1]
  /\ UNCHANGED <<config, timer, slaves, loop, locals, stdout>>

\* subprocess.check_call: the call blocks until the process exits, and raises
\* CalledProcessError, which nothing catches, on a nonzero exit status
CheckCallWait ==
  /\ pc = "wait_job"
  /\ \E status \in ExitStatuses, d \in Delays :
       /\ calls' = Append(calls, [op |-> "exit", idx |-> <<i, j>>, status |-> status])
       /\ now' = now + d
       /\ pc' = IF CheckCallRaises(status) THEN "failed" ELSE "archive"
  /\ running' = [running EXCEPT !.job = @ - 1]
  /\ UNCHANGED <<config, timer, slaves, loop, locals, stdout>>

\* utils.copy_and_zip_all_logs(stringified_parameters, slaves): the call
ArchiverCall ==
  /\ pc = "archive"
  /\ calls' = Append(calls, [op |-> "archive", idx |-> <<i, j>>,
                             params |-> stringified_parameters, hosts |-> slaves])
  /\ running' = [running EXCEPT !.archiver = @ + 1]
  /\ pc' = "in_archiver"
  /\ UNCHANGED <<now, config, timer, slaves, loop, locals, stdout>>

ArchiverReturnCaught ==
  /\ pc = "in_archiver"
  /\ \E outcome \in ArchiverOutcomes, d \in Delays :
       /\ calls' = Append(calls, [op |-> "archive_ret", idx |-> <<i, j>>,
                                  outcome |-> outcome])
       /\ now' = now + d
       /\ pc' = "for_mult"
  /\ running' = [running EXCEPT !.archiver = @ - 1]
  /\ UNCHANGED <<config, timer, slaves, loop, locals, stdout>>

\* utils.copy_and_zip_all_logs: the call returns, or raises an exception that
\* nothing catches
ArchiverReturn ==
  /\ pc = "in_archiver"
  /\ \E outcome \in ArchiverOutcomes, d \in Delays :
       /\ calls' = Append(calls, [op |-> "archive_ret", idx |-> <<i, j>>,
                                  outcome |-> outcome])
       /\ now' = now + d
       /\ pc' = IF outcome = "raise" THEN "failed" ELSE "for_mult"
  /\ running' = [running EXCEPT !.archiver = @ - 1]
  /\ UNCHANGED <<config, timer, slaves, loop, locals, stdout>>

\* end = time.time()
RecordEnd ==
  /\ pc = "record_end"
  /\ end' = now
  /\ calls' = Append(calls, [op |-> "time", t |-> now])
  /\ pc' = "completion"
  /\ UNCHANGED <<now, config, start, completion, slaves, loop, locals, stdout, running>>

\* completion = (end - start)
ComputeCompletion ==
  /\ pc = "completion"
  /\ completion' = Completion(end, start)
  /\ pc' = "print_elapsed"
  /\ UNCHANGED <<now, config, start, end, slaves, loop, locals, stdout, calls, running>>

\* print "Matrix script took" + str(completion)
PrintElapsed ==
  /\ pc = "print_elapsed"
  /\ stdout' = Append(stdout, ElapsedPrefix \o IntStr(completion))
  /\ pc' = "done"
  /\ UNCHANGED <<now, config, timer, slaves, loop, locals, calls, running>>

Next ==
  \/ RecordStart
  \/ ReadSlaves
  \/ PrintSlaves
  \/ ForItemsNext
  \/ ForItemsExit
  \/ ForMultNext
  \/ ForMultExit
  \/ ComputeTasks
  \/ PrintBanner
  \/ BuildCommand
  \/ PrintCommand
  \/ CheckCallSpawn
  \/ CheckCallWait
  \/ ArchiverCall
  \/ ArchiverReturn
  \/ RecordEnd
  \/ ComputeCompletion
  \/ PrintElapsed

Spec == Init /\ [][Next]_vars

(* ------------------- observations used by the properties --------------- *)
N == Len(items_per_partition_values)
M == Len(num_tasks_multiplier_values)

OfOp(op) == SelectSeq(calls, LAMBDA c : c.op = op)
Spawns == OfOp("spawn")
Exits == OfOp("exit")
Archives == OfOp("archive")
ArchiveReturns == OfOp("archive_ret")
\* the calls that start or end an external activity
External == SelectSeq(calls, LAMBDA c : c.op \notin {"time", "read"})

IsPrefix(p, s) == Len(p) <= Len(s) /\ SubSeq(s, 1, Len(p)) = p
Banners == SelectSeq(stdout, LAMBDA l : IsPrefix(BannerPrefix, l))
CommandLines == SelectSeq(stdout, LAMBDA l : IsPrefix(CommandPrefix, l))
ElapsedLines == SelectSeq(stdout, LAMBDA l : IsPrefix(ElapsedPrefix, l))

\* the words the shell splits a command line into
RECURSIVE Words(_)
Words(s) ==
  LET gaps == {k \in 1..Len(s) : s[k] = " "}
  IN IF gaps = {} THEN <<s>>
     ELSE LET k == CHOOSE g \in gaps : \A h \in gaps : g <= h
          IN <<SubSeq(s, 1, k - 1)>> \o Words(SubSeq(s, k + 1, Len(s)))

\* the number a decimal numeral denotes
DigitValue(ch) == CHOOSE d \in 0..9 : Digit(d) = ch
RECURSIVE Numeral(_)
Numeral(s) ==
  IF Len(s) = 1 THEN DigitValue(s[1])
  ELSE 10 * Numeral(SubSeq(s, 1, Len(s) - 1)) + DigitValue(s[Len(s)])

\* the arguments of a command line, after the executable and the subcommand
Args(cmd) == SubSeq(Words(cmd), 3, Len(Words(cmd)))

LexLess(a, b) == a[1] < b[1] \/ (a[1] = b[1] /\ a[2] < b[2])

Failed(c) == \/ c.op = "exit" /\ c.status # 0
             \/ c.op = "archive_ret" /\ c.outcome = "raise"
NoFailure == \A k \in 1..Len(calls) : ~Failed(calls[k])
Terminated == ~ENABLED Next

(* ------------------------------ properties ----------------------------- *)

\* C1: a sweep in which every external call succeeds invokes the external job
\* exactly N*M times, the k-th invocation being the one of the k-th pair of the
\* product in row-major order, and in each invocation the producing-task and
\* the consuming-task counts both equal multiplier * (num_machines *
\* cores_per_machine); the shipped lists give 6 invocations with
\* producing-task counts 8, 16, 32, 64, 128, 256.
C1_SweepInvokesEveryPair ==
  pc = "done" =>
    /\ Len(Spawns) = N * M
    /\ \A k \in 1..Len(Spawns) :
         LET ii == ((k - 1) \div M) + 1
             jj == ((k - 1) % M) + 1
             a == Args(Spawns[k].command)
         IN /\ Spawns[k].idx = <<ii, jj>>
            /\ Numeral(a[3]) = items_per_partition_values[ii]
            /\ Numeral(a[1]) = num_tasks_multiplier_values[jj]
                                 * (num_machines * cores_per_machine)
            /\ Numeral(a[2]) = num_tasks_multiplier_values[jj]
                                 * (num_machines * cores_per_machine)
    /\ (/\ items_per_partition_values = ShippedItemsPerPartitionValues
        /\ num_tasks_multiplier_values = ShippedNumTasksMultiplierValues)
       => /\ Len(Spawns) = 6
          /\ [k \in 1..6 |-> Numeral(Args(Spawns[k].command)[1])]
               = <<8, 16, 32, 64, 128, 256>>

C1_Witness ==
  /\ pc = "done"
  /\ num_tasks_multiplier_values = ShippedNumTasksMultiplierValues
  /\ Len(Spawns) = 6

\* C2: a nonzero exit status of the external job ends the script at once, in
\* the failed state: the exit is the last external effect of the run, nothing
\* more can happen, and the failed combination was started exactly once.
C2_JobFailureStopsSweep ==
  \A k \in 1..Len(calls) :
    (calls[k].op = "exit" /\ calls[k].status # 0) =>
      /\ k = Len(calls)
      /\ pc = "failed"
      /\ Terminated
      /\ Len(SelectSeq(Spawns, LAMBDA c : c.idx = calls[k].idx)) = 1

C2_Witness ==
  /\ pc = "failed"
  /\ calls[Len(calls)].op = "exit"
  /\ calls[Len(calls)].status = 255
  /\ Len(Spawns) = 2
  /\ N * M = 4

\* C3: every command line handed to the shell is the executable path, the
\* subcommand and exactly seven arguments: map count, reduce count, items per
\* partition, values per item, shuffle rounds, sort flag, caching flag.
C3_CommandArgumentOrder ==
  \A k \in 1..Len(Spawns) :
    LET w == Words(Spawns[k].command)
        mult == num_tasks_multiplier_values[Spawns[k].idx[2]]
        items == items_per_partition_values[Spawns[k].idx[1]]
    IN /\ Len(w) = 9
       /\ w[1] = RunExample
       /\ w[2] = ShuffleJob
       /\ Numeral(w[3]) = mult * base_num_map_tasks
       /\ Numeral(w[4]) = mult * base_num_reduce_tasks
       /\ Numeral(w[5]) = items
       /\ Numeral(w[6]) = longs_per_value
       /\ Numeral(w[7]) = num_shuffles
       /\ w[8] = <<"F", "a", "l", "s", "e">>
       /\ w[9] = <<"F", "a", "l", "s", "e">>

C3_Witness ==
  /\ Len(Spawns) = 3
  /\ items_per_partition_values = <<8000000, 10>>
  /\ num_tasks_multiplier_values = <<2, 1>>

\* C4: the external jobs are started in row-major order of the two lists: of
\* two invocations the one with the lexicographically smaller (outer index,
\* inner index) pair comes first, and the invocation of pair (i, j) runs the
\* i-th items-per-partition value with the j-th multiplier.
C4_InvocationOrder ==
  /\ \A k, l \in 1..Len(Spawns) :
       (k < l) <=> LexLess(Spawns[k].idx, Spawns[l].idx)
  /\ \A k \in 1..Len(Spawns) :
       LET a == Args(Spawns[k].command)
       IN /\ Spawns[k].idx[1] \in 1..N
          /\ Spawns[k].idx[2] \in 1..M
          /\ Numeral(a[3]) = items_per_partition_values[Spawns[k].idx[1]]
          /\ Numeral(a[1]) = num_tasks_multiplier_values[Spawns[k].idx[2]]
                               * base_num_map_tasks

C4_Witness ==
  /\ Len(Spawns) = 4
  /\ items_per_partition_values = <<10, 8000000>>
  /\ num_tasks_multiplier_values = <<2, 1>>

\* C5: at most one external activity is in progress at any time, and the
\* external activities of a run follow one another as job start, job exit,
\* archiver call, archiver return, combination after combination.
C5_Sequential ==
  /\ running.job + running.archiver <= 1
  /\ running.job = Len(Spawns) - Len(Exits)
  /\ running.archiver = Len(Archives) - Len(ArchiveReturns)
  /\ \A k \in 1..Len(External) :
       LET c == External[k]
       IN IF k = 1 THEN c.op = "spawn"
          ELSE LET b == External[k - 1]
               IN \/ /\ c.op = "spawn"
                     /\ b.op = "archive_ret" /\ b.outcome = "ok"
                     /\ b.idx # c.idx
                  \/ /\ c.op = "exit"
                     /\ b.op = "spawn" /\ b.idx = c.idx
                  \/ /\ c.op = "archive"
                     /\ b.op = "exit" /\ b.status = 0 /\ b.idx = c.idx
                  \/ /\ c.op = "archive_ret"
                     /\ b.op = "archive" /\ b.idx = c.idx

C5_Witness ==
  /\ running.job = 1
  /\ Len(Spawns) = 3
  /\ Len(ArchiveReturns) = 2

\* C6: an exception raised by the log archiver ends the script at once, in the
\* failed state, as a failed job does: the failed call is the last external
\* effect of the run and nothing more can happen.
C6_ArchiverFailureStopsSweep ==
  \A k \in 1..Len(calls) :
    (calls[k].op = "archive_ret" /\ calls[k].outcome = "raise") =>
      /\ k = Len(calls)
      /\ pc = "failed"
      /\ Terminated
      /\ Len(SelectSeq(Archives, LAMBDA c : c.idx = calls[k].idx)) = 1

C6_Witness ==
  /\ pc = "failed"
  /\ calls[Len(calls)].op = "archive_ret"
  /\ calls[Len(calls)].outcome = "raise"
  /\ Len(Archives) = 2
  /\ N * M = 4

\* The end timestamp is taken right after the last iteration: it is the last
\* external effect, it directly follows the last archiver return (the read of
\* the worker-host file when the sweep is empty), and no time has passed.
EndRecordedAfterLastIteration ==
  pc \in {"completion", "print_elapsed", "done"} =>
    LET n == Len(calls)
    IN /\ calls[n].op = "time" /\ calls[n].t = end /\ end = now
       /\ calls[n - 1].op =
            (IF Spawns = <<>> THEN "read" ELSE "archive_ret")

\* The reported duration is the end timestamp minus the start timestamp.
DurationIsDifference ==
  /\ pc \in {"print_elapsed", "done"} => completion = end - start
  /\ pc = "done" =>
       /\ completion = end - start
       /\ Len(ElapsedLines) = 1
       /\ Numeral(SubSeq(ElapsedLines[1], Len(ElapsedPrefix) + 1,
                         Len(ElapsedLines[1]))) = end - start

\* C7 as stated: nothing happens between recording the start timestamp and
\* the first iteration of the sweep; the end timestamp is recorded right after
\* the last iteration; the reported duration is their difference.
C7_Original ==
  /\ (pc = "for_items" /\ i = 0) =>
       /\ Len(calls) = 1
       /\ calls[1].op = "time" /\ calls[1].t = start
       /\ stdout = <<>>
  /\ EndRecordedAfterLastIteration
  /\ DurationIsDifference

\* C7, amended: the start timestamp is recorded first of all, before the
\* worker-host file is read and the worker-host line is printed, which both
\* happen between it and the first iteration; the end timestamp is recorded
\* right after the last iteration; the reported duration is their difference.
C7_TimerWrapsScript ==
  /\ pc # "start" => (calls[1].op = "time" /\ calls[1].t = start)
  /\ (pc = "for_items" /\ i = 0) =>
       /\ Len(calls) = 2
       /\ calls[2].op = "read"
       /\ Len(stdout) = 1
       /\ IsPrefix(SlavesPrefix, stdout[1])
       /\ now > start
  /\ EndRecordedAfterLastIteration
  /\ DurationIsDifference

C7_Witness ==
  /\ pc = "done"
  /\ Len(Spawns) = 2
  /\ completion = 7

\* Every command line is printed before its job is started: the k-th job runs
\* the k-th printed command line, and at most one printed command line has not
\* been started yet.
CommandPrintedBeforeJob ==
  /\ Len(Spawns) <= Len(CommandLines)
  /\ Len(CommandLines) <= Len(Spawns) + 1
  /\ \A k \in 1..Len(Spawns) : Spawns[k].command = CommandLines[k]

\* C8 as stated: a fully successful sweep prints N banners, N*M command lines
\* and one elapsed-time line, each command line before its job is executed.
C8_Original ==
  /\ pc = "done" =>
       /\ Len(Banners) = N
       /\ Len(CommandLines) = N * M
       /\ Len(ElapsedLines) = 1
  /\ CommandPrintedBeforeJob

\* C8, amended: the banner is printed once per combination, not once per
\* data-size value: a fully successful sweep prints N*M banners, each naming
\* the data-size value of its combination and directly followed by the command
\* line of that combination, N*M command lines and one final elapsed-time
\* line, each command line before its job is executed.
C8_ProgressOutput ==
  /\ pc = "done" =>
       /\ Len(Banners) = N * M
       /\ Len(CommandLines) = N * M
       /\ Len(ElapsedLines) = 1
       /\ Len(stdout) = 2 * N * M + 2
       /\ IsPrefix(ElapsedPrefix, stdout[Len(stdout)])
       /\ \A k \in 1..(N * M) :
            /\ stdout[2 * k] = Banners[k]
            /\ stdout[2 * k + 1] = CommandLines[k]
            /\ Words(Banners[k])[4]
                 = IntStr(items_per_partition_values[((k - 1) \div M) + 1])
  /\ CommandPrintedBeforeJob

C8_Witness ==
  /\ pc = "done"
  /\ N = 2 /\ M = 2
  /\ Len(Banners) = 4

NewlineTerminated(f) == f = <<>> \/ f[Len(f)] = NL
NewlineCount(f) == Cardinality({k \in 1..Len(f) : f[k] = NL})

\* C9: a worker-host file of K newline-terminated lines is parsed into K
\* strings, in file order (joining them with newlines gives the file back),
\* none containing a newline; the file is read once, before the first job,
\* and every archiver call is passed the list as parsed.
C9_WorkerHostList ==
  /\ (pc \notin {"start", "read_slaves"} /\ NewlineTerminated(slavesFile)) =>
       /\ Len(slaves) = NewlineCount(slavesFile)
       /\ \A k \in 1..Len(slaves) :
            \A m \in 1..Len(slaves[k]) : slaves[k][m] # NL
       /\ slaves # <<>> => Join(<<NL>>, slaves) \o <<NL>> = slavesFile
  /\ Len(OfOp("read")) <= 1
  /\ \A k \in 1..Len(calls) :
       calls[k].op = "spawn" => \E m \in 1..(k - 1) : calls[m].op = "read"
  /\ \A k \in 1..Len(Archives) :
       /\ Archives[k].hosts = slaves
       /\ Archives[k].hosts = Archives[1].hosts

C9_Witness ==
  /\ pc = "done"
  /\ slavesFile = <<"a", NL, "b", NL>>
  /\ slaves = <<<<"a">>, <<"b">>>>
  /\ Len(Archives) = 2

====
